---- MODULE Spec2Model ----
(***************************************************************************)
(* Job orchestration and status propagation of the Orpheus Machine         *)
(* backend: one job id followed from POST /generate through the            *)
(* background pipeline (MusicService.generateMusic), the dual-store status *)
(* writes (JobManager.updateJobStatus: durable row first, cache refresh    *)
(* second), status reads (JobManager.getJobStatus) and cancel requests     *)
(* (JobManager.cancelJob).  Every await on a store is a separate step, so  *)
(* that handlers interleave exactly at the suspension points of the code.  *)
(***************************************************************************)
EXTENDS Integers, Sequences, FiniteSets, TLC

\* ---------------------------------------------------------------- bounds
MaxFound == 3        \* largest number of songs the resolver may return
MaxCancelReqs == 1   \* DELETE /jobs/:jobId requests made for the job
MaxFaults == 1       \* store calls (durable store or cache) that fail
MaxDrops == 1        \* times the cache loses the job's entry
MaxRows == 2         \* rows of table songs
MaxTitles == 2       \* titles handed to the resolver in one call
MaxOps == 22         \* durable-store operations called concurrently

\* ------------------------------------------------------ program constants
SongsRequired == 3   \* Joi .length(3)
MinTitleLen == 1     \* Joi .min(1)
MaxTitleLen == 200   \* Joi .max(200)
MinQueryLen == 2     \* GET /search answers [] below this trimmed length
FuzzyLimit == 5      \* findSongFiles: database.searchSongs(songTitle, 5)
DefaultSearchLimit == 20  \* GET /search: parseInt(limit) || 20
PoolMax == 20        \* new Pool({ max: 20 })

VARIABLES
    alive,       \* the host process is running (FALSE after process.exit(1))
    sub,         \* position of the POST /generate handler
    db,          \* the job's row in table jobs (Absent when there is none)
    cache,       \* the entry job:<jobId> of the cache (Absent on a miss)
    outputStore, \* artifact ids present in the output directory
    pipe,        \* the background run of MusicService.generateMusic
    cancel,      \* the DELETE /jobs/:jobId handler of the cancelling client
    reader,      \* the GET /status/:jobId handler of the polling client
    cancels,     \* history: number of cancel requests received
    faults,      \* history: number of store calls that have failed
    drops,       \* history: number of times the cache entry was dropped
    cacheLost,   \* history: the cache entry was dropped before the run ended
    resp,        \* the HTTP response sent by the latest step, if it sent one
    req,         \* the body of the POST /generate request being validated
    catalog,     \* the rows of table songs
    lib,         \* the latest call of the song resolver, of GET /search or
                 \* of GET /download/:fileId, with what it returned
    cron,        \* time since the job's creation and the latest cleanup runs
    pool         \* the connection pool of the durable store and its callers

\* what the handlers of a job leave alone: the song catalog and the calls
\* made on it, the cleanup clock and the connection pool
libVars == <<catalog, lib, cron, pool>>

vars == <<alive, sub, db, cache, outputStore, pipe, cancel, reader,
          cancels, faults, drops, cacheLost, resp, req, catalog, lib,
          cron, pool>>

\* --------------------------------------------------------------- records
\* A job row / cache snapshot.  jobId, songs and createdAt never change
\* after creation and are left out; null and undefined are both "none".
Absent == [status |-> "absent", progress |-> 0, error |-> "none",
           out |-> "none", completedAt |-> "none"]

Present(rec) == rec.status # "absent"

Terminal(rec) == rec.status \in {"completed", "failed"}

\* INSERT INTO jobs (job_id, songs): the column defaults give pending / 0
DbInsertRow == [status |-> "pending", progress |-> 0, error |-> "none",
                out |-> "none", completedAt |-> "none"]

\* createJob caching the job as already processing
CreateJobSnapshot_Processing ==
    [status |-> "processing", progress |-> 10, error |-> "none",
     out |-> "none", completedAt |-> "none"]

\* jobData cached by JobManager.createJob
CreateJobSnapshot == [status |-> "pending", progress |-> 0, error |-> "none",
                      out |-> "none", completedAt |-> "none"]

\* a store refusing to overwrite a completed or failed row
DbUpdateJobStatus_Fenced(row, args) ==
    IF ~Present(row) \/ Terminal(row) THEN row
    ELSE [status |-> args.status, progress |-> args.progress,
          error |-> args.error, out |-> args.out,
          completedAt |-> IF args.status = "completed" THEN "set" ELSE "none"]

\* updateJobStatus never stamping completed_at
DbUpdateJobStatus_NoCompletedAt(row, args) ==
    IF ~Present(row) THEN row
    ELSE [status |-> args.status, progress |-> args.progress,
          error |-> args.error, out |-> args.out, completedAt |-> "none"]

\* Database.updateJobStatus: UPDATE jobs SET status, progress, error_message,
\* output_file_id, completed_at WHERE job_id; no row matches when absent
DbUpdateJobStatus(row, args) ==
    IF ~Present(row) THEN row
    ELSE [status |-> args.status, progress |-> args.progress,
          error |-> args.error, out |-> args.out,
          completedAt |-> IF args.status = "completed" THEN "set" ELSE "none"]

\* the cache merge of JobManager.updateJobStatus: {...cachedJob, status,
\* progress, error, outputFileId, completedAt only when completed}.  Of
\* cachedJob only completedAt (with the immutable jobId, songs, createdAt)
\* survives the spread, so the handlers keep just that field of it.
CacheMerge(cachedCompletedAt, args) ==
    [status |-> args.status, progress |-> args.progress,
     error |-> args.error, out |-> args.out,
     completedAt |-> IF args.status = "completed" THEN "set"
                     ELSE cachedCompletedAt]

\* the snapshot leaving out the progress column
SnapshotOfRow_NoProgress(row) ==
    [status |-> row.status, progress |-> 0, error |-> row.error,
     out |-> row.out, completedAt |-> row.completedAt]

\* jobData built from the row by JobManager.getJobStatus on a cache miss
SnapshotOfRow(row) ==
    [status |-> row.status, progress |-> row.progress, error |-> row.error,
     out |-> row.out, completedAt |-> row.completedAt]

WArgs(s, p, e, o) == [status |-> s, progress |-> p, error |-> e, out |-> o]

\* a store call resolves (TRUE) or, while the fault budget lasts, rejects
Outcomes == IF faults < MaxFaults THEN BOOLEAN ELSE {TRUE}

\* ------------------------------------------------------------ validation
TitleLens == {0, MinTitleLen, MaxTitleLen, MaxTitleLen + 1}

Requests == UNION {[1..n -> TitleLens] :
                       n \in (SongsRequired - 1)..(SongsRequired + 1)}

\* the schema without .length(3)
ValidRequest_AnyCount(r) ==
    \A i \in 1..Len(r) : r[i] >= MinTitleLen /\ r[i] <= MaxTitleLen

\* generateMusicSchema: exactly 3 titles, each 1..200 characters once trimmed
ValidRequest(r) ==
    /\ Len(r) = SongsRequired
    /\ \A i \in 1..Len(r) : r[i] >= MinTitleLen /\ r[i] <= MaxTitleLen

\* ------------------------------------------------------------------ Init
PipeIdle == [pc |-> "idle", ph |-> "-", cached |-> "none", err |-> "none",
             found |-> -1, files |-> 0, mlIn |-> -1, out |-> "none",
             ck |-> 0, cause |-> "none"]

CancelIdle == [pc |-> "idle", progress |-> 0, cached |-> "none"]

ReaderIdle == [pc |-> "idle", data |-> Absent]

\* a response: the handler that sent it, its HTTP status (for an error of the
\* cancel handler: the error it carries), and the job record in its body
Resp(f, c, b) == [from |-> f, code |-> c, body |-> b]

NoResp == Resp("none", "none", Absent)

\* no request body is held
NoRequest == <<>>

\* no resolver, search or download call has been made
LibIdle == [op |-> "none", input |-> <<>>, queried |-> FALSE, songs |-> <<>>,
            code |-> "none", sent |-> "none"]

\* the job is younger than every cleanup cutoff and no cleanup has run
CronIdle == [age |-> "new", jobs |-> "none", files |-> "none"]

\* no durable-store operation has been called.  inUse counts the clients
\* the pool has checked out; the other fields count the callers of Database
\* methods by where they are: queued in pool.connect(), inside the method's
\* try block, past the method in the external call of their next stage,
\* finished, finished by a thrown query error, refused by pool.connect()
PoolIdle == [inUse |-> 0, waiting |-> 0, active |-> 0, external |-> 0,
             done |-> 0, threw |-> 0, refused |-> 0]

Init ==
    /\ alive = TRUE
    /\ sub = "idle"
    /\ db = Absent
    /\ cache = Absent
    /\ outputStore = {}
    /\ pipe = PipeIdle
    /\ cancel = CancelIdle
    /\ reader = ReaderIdle
    /\ cancels = 0
    /\ faults = 0
    /\ drops = 0
    /\ cacheLost = FALSE
    /\ resp = NoResp
    /\ req = NoRequest
    /\ catalog = <<>>
    /\ cron = CronIdle
    /\ pool = PoolIdle
    /\ lib = LibIdle

\* ------------------------------------------------- POST /generate handler
\* POST /generate arrives with its parsed body
SubmitArrive ==
    /\ alive /\ sub = "idle"
    /\ \E r \in Requests : req' = r
    /\ sub' = "validate"
    /\ resp' = NoResp
    /\ UNCHANGED <<alive, db, cache, outputStore, pipe, cancel, reader,
                   cancels, faults, drops, cacheLost>>
    /\ UNCHANGED libVars

\* Joi validation; a validation error is thrown as a 400 before any job exists
SubmitValidate ==
    /\ alive /\ sub = "validate"
    /\ IF ValidRequest(req)
       THEN sub' = "createJobDb" /\ resp' = NoResp
       ELSE sub' = "rejected400" /\ resp' = Resp("submit", "400", Absent)
    /\ req' = NoRequest
    /\ UNCHANGED <<alive, db, cache, outputStore, pipe, cancel, reader,
                   cancels, faults, drops, cacheLost>>
    /\ UNCHANGED libVars

\* JobManager.createJob, first await: database.createJob
CreateJobDb ==
    /\ alive /\ sub = "createJobDb"
    /\ \E ok \in Outcomes :
          IF ok
          THEN /\ db' = DbInsertRow
               /\ sub' = "createJobCache"
               /\ resp' = NoResp
               /\ UNCHANGED faults
          ELSE /\ sub' = "rejected500"
               /\ resp' = Resp("submit", "500", Absent)
               /\ faults' = faults + 1
               /\ UNCHANGED db
    /\ UNCHANGED <<alive, cache, outputStore, pipe, cancel, reader,
                   cancels, drops, cacheLost>>
    /\ UNCHANGED <<req, catalog, lib, cron, pool>>

\* the handler awaiting the run's first status write before answering
PipeStart_FirstWriteDone == [PipeIdle EXCEPT !.pc = "resolve", !.ck = 10]

\* generateMusic is called without await: it runs up to the first await of
\* its first updateJobStatus call, before the query is sent
PipeStart == [PipeIdle EXCEPT !.pc = "w10", !.ph = "db"]

\* JobManager.createJob, second await: redis.setJob.  When it resolves the
\* handler calls generateMusic (which runs up to its first store call) and
\* sends the 202 acknowledgement in the same turn of the event loop; when it
\* rejects, createJob rethrows and the request ends as a 500.
CreateJobCache ==
    /\ alive /\ sub = "createJobCache"
    /\ \E ok \in Outcomes :
          IF ok
          THEN /\ cache' = CreateJobSnapshot
               /\ sub' = "acked"
               /\ pipe' = PipeStart
               /\ resp' = Resp("submit", "202", Absent)
               /\ UNCHANGED faults
          ELSE /\ sub' = "rejected500"
               /\ resp' = Resp("submit", "500", Absent)
               /\ faults' = faults + 1
               /\ UNCHANGED <<cache, pipe>>
    /\ UNCHANGED <<alive, db, outputStore, cancel, reader,
                   cancels, drops, cacheLost>>
    /\ UNCHANGED <<req, catalog, lib, cron, pool>>

\* ------------------------------------------- MusicService.generateMusic
WritePcs == {"w10", "w30", "w50", "w80", "w95", "w100", "wfail", "rwfail"}

CheckpointPcs == {"w10", "w30", "w50", "w80", "w95", "w100"}

\* the catch block storing no message
FailArgs_NoMessage(e) == WArgs("failed", 0, "none", "none")

\* arguments of the generateMusic catch block's updateJobStatus call
FailArgs(e) == WArgs("failed", 0, e, "none")

\* arguments of the updateJobStatus call in the .catch of the /generate route
RouteFailArgs(e) == WArgs("failed", 0, e, "none")

\* the checkpoints of steps 2 and 3 written with each other's progress
PipeArgs_Swapped(p) ==
    CASE p.pc = "w10"    -> WArgs("processing", 10, "none", "none")
      [] p.pc = "w30"    -> WArgs("processing", 50, "none", "none")
      [] p.pc = "w50"    -> WArgs("processing", 30, "none", "none")
      [] p.pc = "w80"    -> WArgs("processing", 80, "none", "none")
      [] p.pc = "w95"    -> WArgs("processing", 95, "none", "none")
      [] p.pc = "w100"   -> WArgs("completed", 100, "none", p.out)
      [] p.pc = "wfail"  -> FailArgs(p.err)
      [] p.pc = "rwfail" -> RouteFailArgs(p.err)

\* the completed write issued at the checkpoint before the output is saved
PipeArgs_CompletedBeforeSave(p) ==
    CASE p.pc = "w10"    -> WArgs("processing", 10, "none", "none")
      [] p.pc = "w30"    -> WArgs("processing", 30, "none", "none")
      [] p.pc = "w50"    -> WArgs("processing", 50, "none", "none")
      [] p.pc = "w80"    -> WArgs("processing", 80, "none", "none")
      [] p.pc = "w95"    -> WArgs("completed", 100, "none", "file1")
      [] p.pc = "w100"   -> WArgs("completed", 100, "none", p.out)
      [] p.pc = "wfail"  -> FailArgs(p.err)
      [] p.pc = "rwfail" -> RouteFailArgs(p.err)

\* arguments of the status write the run is executing
PipeArgs(p) ==
    CASE p.pc = "w10"    -> WArgs("processing", 10, "none", "none")
      [] p.pc = "w30"    -> WArgs("processing", 30, "none", "none")
      [] p.pc = "w50"    -> WArgs("processing", 50, "none", "none")
      [] p.pc = "w80"    -> WArgs("processing", 80, "none", "none")
      [] p.pc = "w95"    -> WArgs("processing", 95, "none", "none")
      [] p.pc = "w100"   -> WArgs("completed", 100, "none", p.out)
      [] p.pc = "wfail"  -> FailArgs(p.err)
      [] p.pc = "rwfail" -> RouteFailArgs(p.err)

\* the empty-result guard never firing
NoSongsFound_Never(n) == n < 0

\* the guard rejecting every result short of the three requested songs
NoSongsFound_FewerThanThree(n) == n < SongsRequired

\* if (songs.length === 0) throw
NoSongsFound(n) == n = 0

\* an exception that is recorded while the run carries on where it was
PipeThrow_Resume(p, e) == [p EXCEPT !.err = e]

\* an exception inside the try block enters the catch block, whose status
\* write starts; an exception of that write rejects generateMusic with the
\* new error, which the route's .catch receives
PipeThrow(p, e) ==
    IF p.pc = "wfail"
    THEN [p EXCEPT !.pc = "rwfail", !.ph = "db", !.cached = "none", !.err = e]
    ELSE [p EXCEPT !.pc = "wfail", !.ph = "db", !.cached = "none", !.err = e]

\* continuation after an updateJobStatus call has resolved
PipeWriteDone(p) ==
    LET q == [p EXCEPT !.ph = "-", !.cached = "none"] IN
    CASE p.pc = "w10"    -> [q EXCEPT !.pc = "resolve"]
      [] p.pc = "w30"    -> IF NoSongsFound(p.found)
                            THEN PipeThrow(q, "NoMidi")
                            ELSE [q EXCEPT !.pc = "download"]
      [] p.pc = "w50"    -> [q EXCEPT !.pc = "transform"]
      [] p.pc = "w80"    -> [q EXCEPT !.pc = "encode"]
      [] p.pc = "w95"    -> [q EXCEPT !.pc = "save"]
      [] p.pc = "w100"   -> [q EXCEPT !.pc = "done"]
      [] p.pc = "wfail"  -> [q EXCEPT !.pc = "rwfail", !.ph = "db"]
      [] p.pc = "rwfail" -> [q EXCEPT !.pc = "done"]

PipeRunning == pipe.pc \notin {"idle", "done", "crashed"}

\* a rejection of the route's un-awaited updateJobStatus call is unhandled:
\* process.on('unhandledRejection') exits the process
PipeCrash(p) == [p EXCEPT !.pc = "crashed", !.ph = "-", !.cached = "none"]

\* a store call of the running status write rejects with error e
PipeStoreFails(e) ==
    /\ faults' = faults + 1
    /\ IF pipe.pc = "rwfail"
       THEN /\ pipe' = PipeCrash(pipe)
            /\ alive' = FALSE
       ELSE /\ pipe' = PipeThrow(pipe, e)
            /\ UNCHANGED alive

\* updateJobStatus, first await: database.updateJobStatus
PipeDbUpdate ==
    /\ alive /\ pipe.pc \in WritePcs /\ pipe.ph = "db"
    /\ resp' = NoResp
    /\ \E ok \in Outcomes :
          IF ok
          THEN /\ db' = DbUpdateJobStatus(db, PipeArgs(pipe))
               /\ pipe' = [pipe EXCEPT !.ph = "cget",
                             !.ck = IF pipe.pc \in CheckpointPcs
                                    THEN PipeArgs(pipe).progress ELSE @]
               /\ UNCHANGED <<alive, faults>>
          ELSE /\ PipeStoreFails("DbError")
               /\ UNCHANGED db
    /\ UNCHANGED <<sub, cache, outputStore, cancel, reader,
                   cancels, drops, cacheLost>>
    /\ UNCHANGED <<req, catalog, lib, cron, pool>>

\* updateJobStatus, second await: redis.getJob; without a cached entry the
\* refresh is skipped and the call resolves
PipeCacheGet ==
    /\ alive /\ pipe.pc \in WritePcs /\ pipe.ph = "cget"
    /\ resp' = NoResp
    /\ \E ok \in Outcomes :
          IF ok
          THEN /\ pipe' = IF Present(cache)
                          THEN [pipe EXCEPT !.ph = "cset", !.cached = cache.completedAt]
                          ELSE PipeWriteDone(pipe)
               /\ UNCHANGED <<alive, faults>>
          ELSE PipeStoreFails("CacheError")
    /\ UNCHANGED <<sub, db, cache, outputStore, cancel, reader,
                   cancels, drops, cacheLost>>
    /\ UNCHANGED <<req, catalog, lib, cron, pool>>

\* updateJobStatus, third await: redis.setJob of the merged snapshot
PipeCacheSet ==
    /\ alive /\ pipe.pc \in WritePcs /\ pipe.ph = "cset"
    /\ resp' = NoResp
    /\ \E ok \in Outcomes :
          IF ok
          THEN /\ cache' = CacheMerge(pipe.cached, PipeArgs(pipe))
               /\ pipe' = PipeWriteDone(pipe)
               /\ UNCHANGED <<alive, faults>>
          ELSE /\ PipeStoreFails("CacheError")
               /\ UNCHANGED cache
    /\ UNCHANGED <<sub, db, outputStore, cancel, reader,
                   cancels, drops, cacheLost>>
    /\ UNCHANGED <<req, catalog, lib, cron, pool>>

\* step 2: findSongFiles returns n songs, or throws its wrapped error
PipeResolve ==
    /\ alive /\ pipe.pc = "resolve"
    /\ resp' = NoResp
    /\ \/ \E n \in 0..MaxFound :
             pipe' = [pipe EXCEPT !.pc = "w30", !.ph = "db", !.found = n]
       \/ pipe' = PipeThrow(pipe, "SearchFailed")
    /\ UNCHANGED <<alive, sub, db, cache, outputStore, cancel, reader,
                   cancels, faults, drops, cacheLost>>
    /\ UNCHANGED <<req, catalog, lib, cron, pool>>

\* error names with which s3.getObject rejects: the three that downloadFile
\* tells apart, and any other (network failure, service unavailable)
S3Causes == {"NoSuchKey", "AccessDenied", "NoSuchBucket", "Unavailable"}

\* message of the error S3Service.downloadFile throws for a rejection
S3DownloadFileError(cause) ==
    CASE cause = "NoSuchKey"    -> "FileNotFoundInS3"
      [] cause = "AccessDenied" -> "AccessDeniedForS3File"
      [] cause = "NoSuchBucket" -> "S3BucketNotFound"
      [] OTHER                  -> "FailedToDownloadFileFromS3"

\* message of the error downloadMidiFiles throws when a fetch has rejected:
\* the catch block replaces whatever it caught by one fixed message
DownloadMidiFilesError(fetchError) == "DownloadFailed"

\* downloadMidiFiles keeping the fetches that succeeded (allSettled + filter)
DownloadMidiFiles_KeepFulfilled(n, nfail) == n - nfail

\* downloadMidiFiles for n songs of which nfail fetches reject: Promise.all
\* gives one buffer per song when none rejects and rejects otherwise (-1)
DownloadMidiFiles(n, nfail) == IF nfail = 0 THEN n ELSE -1

\* step 3: downloadMidiFiles maps every song to a fetch and awaits them all
PipeDownload ==
    /\ alive /\ pipe.pc = "download"
    /\ resp' = NoResp
    /\ \E nfail \in 0..pipe.found, c \in S3Causes :
          LET got == DownloadMidiFiles(pipe.found, nfail)
              p   == [pipe EXCEPT !.cause = IF nfail > 0 THEN c ELSE "none"]
          IN  IF got >= 0
              THEN pipe' = [p EXCEPT !.pc = "w50", !.ph = "db", !.files = got]
              ELSE pipe' = PipeThrow(p, DownloadMidiFilesError(
                                            S3DownloadFileError(c)))
    /\ UNCHANGED <<alive, sub, db, cache, outputStore, cancel, reader,
                   cancels, faults, drops, cacheLost>>
    /\ UNCHANGED <<req, catalog, lib, cron, pool>>

\* step 4: mlService.generateMusic(midiFiles); a timeout is a rejection
PipeTransform ==
    /\ alive /\ pipe.pc = "transform"
    /\ resp' = NoResp
    /\ \/ pipe' = [pipe EXCEPT !.pc = "w80", !.ph = "db", !.mlIn = pipe.files]
       \/ pipe' = PipeThrow([pipe EXCEPT !.mlIn = pipe.files], "MLError")
    /\ UNCHANGED <<alive, sub, db, cache, outputStore, cancel, reader,
                   cancels, faults, drops, cacheLost>>
    /\ UNCHANGED <<req, catalog, lib, cron, pool>>

\* step 5: mlService.convertMidiToMp3
PipeEncode ==
    /\ alive /\ pipe.pc = "encode"
    /\ resp' = NoResp
    /\ \/ pipe' = [pipe EXCEPT !.pc = "w95", !.ph = "db"]
       \/ pipe' = PipeThrow(pipe, "ConvertError")
    /\ UNCHANGED <<alive, sub, db, cache, outputStore, cancel, reader,
                   cancels, faults, drops, cacheLost>>
    /\ UNCHANGED <<req, catalog, lib, cron, pool>>

\* step 6: outputFileId = uuidv4(); fileService.saveGeneratedFile
PipeSave ==
    /\ alive /\ pipe.pc = "save"
    /\ resp' = NoResp
    /\ \/ /\ pipe' = [pipe EXCEPT !.pc = "w100", !.ph = "db", !.out = "file1"]
          /\ outputStore' = outputStore \cup {"file1"}
       \/ /\ pipe' = PipeThrow(pipe, "SaveError")
          /\ UNCHANGED outputStore
    /\ UNCHANGED <<alive, sub, db, cache, cancel, reader,
                   cancels, faults, drops, cacheLost>>
    /\ UNCHANGED <<req, catalog, lib, cron, pool>>

\* ------------------------------------------------ JobManager.cancelJob
\* The job id is a uuid drawn inside the /generate handler: a client request
\* can name it only after that handler has answered (from the 202 body, or
\* from GET /jobs when the request ended as a 500 after the insert).  Requests
\* made when no row was inserted are requests for an id that does not exist.
IdKnown == sub \in {"acked", "rejected400", "rejected500"}

\* cancelJob resetting progress the way the failure handlers do
CancelArgs_ResetProgress(progress) == WArgs("failed", 0, "Cancelled", "none")

\* arguments of cancelJob's updateJobStatus call: job.progress of the
\* fetched row is passed on
CancelArgs(progress) == WArgs("failed", progress, "Cancelled", "none")

\* the guard forgetting the failed status
CannotCancel_CompletedOnly(job) == job.status = "completed"

\* cancelJob's guard on the fetched row
CannotCancel(job) == job.status = "completed" \/ job.status = "failed"

\* the handler ends and its locals are gone
CancelEnd == CancelIdle

\* the 200 confirmation, or the error cancelJob rethrows, which reaches
\* errorHandler without a statusCode and is answered 500
CancelResp(code) == Resp("cancel", code, Absent)

\* DELETE /jobs/:jobId arrives; cancelJob's first await: database.getJob,
\* followed by the two guards
CancelGetJob ==
    /\ alive /\ IdKnown /\ cancel.pc = "idle" /\ cancels < MaxCancelReqs
    /\ cancels' = cancels + 1
    /\ \E ok \in Outcomes :
          IF ok
          THEN /\ IF ~Present(db)
                  THEN cancel' = CancelEnd /\ resp' = CancelResp("JobNotFound")
                  ELSE IF CannotCancel(db)
                  THEN cancel' = CancelEnd /\ resp' = CancelResp("CannotCancel")
                  ELSE /\ cancel' = [cancel EXCEPT !.pc = "db",
                                                   !.progress = db.progress]
                       /\ resp' = NoResp
               /\ UNCHANGED faults
          ELSE /\ cancel' = CancelEnd
               /\ resp' = CancelResp("DbError")
               /\ faults' = faults + 1
    /\ UNCHANGED <<alive, sub, db, cache, outputStore, pipe, reader,
                   drops, cacheLost>>
    /\ UNCHANGED <<req, catalog, lib, cron, pool>>

\* updateJobStatus called by cancelJob, first await
CancelDbUpdate ==
    /\ alive /\ cancel.pc = "db"
    /\ \E ok \in Outcomes :
          IF ok
          THEN /\ db' = DbUpdateJobStatus(db, CancelArgs(cancel.progress))
               /\ cancel' = [cancel EXCEPT !.pc = "cget"]
               /\ resp' = NoResp
               /\ UNCHANGED faults
          ELSE /\ cancel' = CancelEnd
               /\ resp' = CancelResp("DbError")
               /\ faults' = faults + 1
               /\ UNCHANGED db
    /\ UNCHANGED <<alive, sub, cache, outputStore, pipe, reader,
                   cancels, drops, cacheLost>>
    /\ UNCHANGED <<req, catalog, lib, cron, pool>>

\* updateJobStatus called by cancelJob, second await
CancelCacheGet ==
    /\ alive /\ cancel.pc = "cget"
    /\ \E ok \in Outcomes :
          IF ok
          THEN /\ IF Present(cache)
                  THEN /\ cancel' = [cancel EXCEPT !.pc = "cset",
                                                   !.cached = cache.completedAt]
                       /\ resp' = NoResp
                  ELSE /\ cancel' = CancelEnd
                       /\ resp' = CancelResp("200")
               /\ UNCHANGED faults
          ELSE /\ cancel' = CancelEnd
               /\ resp' = CancelResp("CacheError")
               /\ faults' = faults + 1
    /\ UNCHANGED <<alive, sub, db, cache, outputStore, pipe, reader,
                   cancels, drops, cacheLost>>
    /\ UNCHANGED <<req, catalog, lib, cron, pool>>

\* updateJobStatus called by cancelJob, third await
CancelCacheSet ==
    /\ alive /\ cancel.pc = "cset"
    /\ \E ok \in Outcomes :
          IF ok
          THEN /\ cache' = CacheMerge(cancel.cached,
                                      CancelArgs(cancel.progress))
               /\ cancel' = CancelEnd
               /\ resp' = CancelResp("200")
               /\ UNCHANGED faults
          ELSE /\ cancel' = CancelEnd
               /\ resp' = CancelResp("CacheError")
               /\ faults' = faults + 1
               /\ UNCHANGED cache
    /\ UNCHANGED <<alive, sub, db, outputStore, pipe, reader,
                   cancels, drops, cacheLost>>
    /\ UNCHANGED <<req, catalog, lib, cron, pool>>

\* ---------------------------------------------- JobManager.getJobStatus
\* the handler ends and its locals are gone
ReadEnd == ReaderIdle

\* formatJobResponse of a snapshot, sent with res.json
FormatJobResponse(jobData) == Resp("read", "200", jobData)

\* the route answering an unknown id with a default record
NotFoundResp_DefaultRecord == Resp("read", "200", DbInsertRow)

\* getJobStatus returned null: createError('Job not found', 404)
NotFoundResp == Resp("read", "404", Absent)

\* GET /status/:jobId arrives; getJobStatus' first await: redis.getJob.
\* A hit is formatted and returned at once.
ReadCacheGet ==
    /\ alive /\ IdKnown /\ reader.pc = "idle"
    /\ \E ok \in Outcomes :
          IF ok
          THEN /\ IF Present(cache)
                  THEN /\ resp' = FormatJobResponse(cache)
                       /\ UNCHANGED reader
                  ELSE /\ reader' = [reader EXCEPT !.pc = "dbget"]
                       /\ resp' = NoResp
               /\ UNCHANGED faults
          ELSE /\ resp' = Resp("read", "500", Absent)
               /\ faults' = faults + 1
               /\ UNCHANGED reader
    /\ UNCHANGED <<alive, sub, db, cache, outputStore, pipe, cancel,
                   cancels, drops, cacheLost>>
    /\ UNCHANGED <<req, catalog, lib, cron, pool>>

\* getJobStatus, second await: database.getJob; null becomes a 404
ReadDbGet ==
    /\ alive /\ reader.pc = "dbget"
    /\ \E ok \in Outcomes :
          IF ok
          THEN /\ IF Present(db)
                  THEN /\ reader' = [reader EXCEPT !.pc = "cset",
                                                !.data = SnapshotOfRow(db)]
                       /\ resp' = NoResp
                  ELSE /\ reader' = ReadEnd
                       /\ resp' = NotFoundResp
               /\ UNCHANGED faults
          ELSE /\ reader' = ReadEnd
               /\ resp' = Resp("read", "500", Absent)
               /\ faults' = faults + 1
    /\ UNCHANGED <<alive, sub, db, cache, outputStore, pipe, cancel,
                   cancels, drops, cacheLost>>
    /\ UNCHANGED <<req, catalog, lib, cron, pool>>

\* getJobStatus, third await: redis.setJob of the snapshot of the row
ReadCacheSet ==
    /\ alive /\ reader.pc = "cset"
    /\ reader' = ReadEnd
    /\ \E ok \in Outcomes :
          IF ok
          THEN /\ cache' = reader.data
               /\ resp' = FormatJobResponse(reader.data)
               /\ UNCHANGED faults
          ELSE /\ resp' = Resp("read", "500", Absent)
               /\ faults' = faults + 1
               /\ UNCHANGED cache
    /\ UNCHANGED <<alive, sub, db, outputStore, pipe, cancel,
                   cancels, drops, cacheLost>>
    /\ UNCHANGED <<req, catalog, lib, cron, pool>>

\* ------------------------------------------------------------- the cache
\* the entry job:<jobId> disappears: its TTL ran out, or the cache lost it
ExpireCache ==
    /\ Present(cache) /\ drops < MaxDrops
    /\ cache' = Absent
    /\ drops' = drops + 1
    /\ cacheLost' = (cacheLost \/ PipeRunning)
    /\ resp' = NoResp
    /\ UNCHANGED <<alive, sub, db, outputStore, pipe, cancel, reader,
                   cancels, faults>>
    /\ UNCHANGED <<req, catalog, lib, cron, pool>>

\* ------------------------------------------------------------------ Spec
Next ==
    \/ SubmitArrive
    \/ SubmitValidate
    \/ CreateJobDb
    \/ CreateJobCache
    \/ PipeDbUpdate
    \/ PipeCacheGet
    \/ PipeCacheSet
    \/ PipeResolve
    \/ PipeDownload
    \/ PipeTransform
    \/ PipeEncode
    \/ PipeSave
    \/ CancelGetJob
    \/ CancelDbUpdate
    \/ CancelCacheGet
    \/ CancelCacheSet
    \/ ReadCacheGet
    \/ ReadDbGet
    \/ ReadCacheSet
    \/ ExpireCache

Spec == Init /\ [][Next]_vars

TypeOK ==
    /\ alive \in BOOLEAN
    /\ sub \in {"idle", "validate", "createJobDb", "createJobCache", "acked",
                "rejected400", "rejected500"}
    /\ db.progress \in 0..100
    /\ cache.progress \in 0..100



\* --------------------------------------------------- scheduled cleanup
\* cron.age is the time since the job was created and its artifact saved:
\* "new" below 24 hours, "day" from 24 hours, "week" from 168 hours.
\* cron.jobs and cron.files tell what the latest run of each task did.
JobCutoffAges == {"week"}          \* cleanupOldJobs(168)

FileCutoffAges == {"day", "week"}  \* cleanupOldFiles(24)

\* every handler and every stage of a run waits on calls that return within
\* minutes (S3 60 s, generation service 5 min): the hours of the cutoffs pass
\* only while nothing runs
Quiet ==
    /\ ~PipeRunning
    /\ sub \notin {"validate", "createJobDb", "createJobCache"}
    /\ cancel.pc = "idle" /\ reader.pc = "idle"

\* time passes
Tick ==
    /\ Quiet /\ cron.age # "week"
    /\ cron' = [cron EXCEPT !.age = IF @ = "new" THEN "day" ELSE "week"]
    /\ resp' = NoResp
    /\ UNCHANGED <<alive, sub, db, cache, outputStore, pipe, cancel, reader,
                   cancels, faults, drops, cacheLost, req, catalog, lib, pool>>

\* the DELETE without its status condition
DeleteOldJobs_AnyStatus(row, age) ==
    IF Present(row) /\ age \in JobCutoffAges THEN Absent ELSE row

\* Database.deleteOldJobs: DELETE FROM jobs WHERE created_at < NOW() -
\* INTERVAL '168 hours' AND status IN ('completed', 'failed')
DeleteOldJobs(row, age) ==
    IF Present(row) /\ age \in JobCutoffAges
       /\ row.status \in {"completed", "failed"}
    THEN Absent
    ELSE row

\* the 2 AM task: jobManager.cleanupOldJobs(168); an error is logged.  The
\* runs made while the job is younger than every cutoff find nothing of it
\* to remove and are left out.
CleanupOldJobs ==
    /\ alive /\ cron.age # "new"
    /\ resp' = NoResp
    /\ \E ok \in Outcomes :
          IF ok
          THEN /\ db' = DeleteOldJobs(db, cron.age)
               /\ cron' = [cron EXCEPT !.jobs = IF db' # db THEN "deleted"
                                                ELSE "kept"]
               /\ UNCHANGED faults
          ELSE /\ faults' = faults + 1
               /\ cron' = [cron EXCEPT !.jobs = "error"]
               /\ UNCHANGED db
    /\ UNCHANGED <<alive, sub, cache, outputStore, pipe, cancel, reader,
                   cancels, drops, cacheLost, req, catalog, lib, pool>>

\* FileService.cleanupOldFiles: every orpheus_*.mp3 of the output directory
\* whose mtime is before the cutoff is unlinked
CleanupOldFilesStore(store, age) ==
    IF age \in FileCutoffAges THEN {} ELSE store

\* the 3 AM task: fileService.cleanupOldFiles(24)
CleanupOldFiles ==
    /\ alive /\ cron.age # "new"
    /\ resp' = NoResp
    /\ outputStore' = CleanupOldFilesStore(outputStore, cron.age)
    /\ cron' = [cron EXCEPT !.files = IF outputStore' # outputStore
                                      THEN "deleted" ELSE "kept"]
    /\ UNCHANGED <<alive, sub, db, cache, pipe, cancel, reader,
                   cancels, faults, drops, cacheLost, req, catalog, lib,
                   pool>>

\* the life of a job that is submitted, run, possibly cancelled, and then
\* left to age (no status polling, no cache loss)
NextCleanup ==
    \/ SubmitArrive
    \/ SubmitValidate
    \/ CreateJobDb
    \/ CreateJobCache
    \/ PipeDbUpdate
    \/ PipeCacheGet
    \/ PipeCacheSet
    \/ PipeResolve
    \/ PipeDownload
    \/ PipeTransform
    \/ PipeEncode
    \/ PipeSave
    \/ CancelGetJob
    \/ CancelDbUpdate
    \/ CancelCacheGet
    \/ CancelCacheSet
    \/ Tick
    \/ CleanupOldJobs
    \/ CleanupOldFiles

SpecCleanup == Init /\ [][NextCleanup]_vars

\* ------------------------------------------------------ strings and titles
\* A string is a sequence of one-character strings.

\* the characters in code-point order (the order ORDER BY title falls back on)
Alphabet == <<" ", "-", ".", "1", "2", "F", "G", "a", "f", "g">>

Code(c) == CHOOSE i \in 1..Len(Alphabet) : Alphabet[i] = c

IsDigit(c) == c \in {"0", "1", "2", "3", "4", "5", "6", "7", "8", "9"}

IsSpace(c) == c = " "

LowerChar(c) == CASE c = "F" -> "f" [] c = "G" -> "g" [] OTHER -> c

\* LOWER(...) / toLowerCase
Lower(s) == [i \in 1..Len(s) |-> LowerChar(s[i])]

\* String.prototype.trim
Trim(s) ==
    LET keep == {i \in 1..Len(s) : ~IsSpace(s[i])}
    IN  IF keep = {} THEN <<>>
        ELSE LET lo == CHOOSE i \in keep : \A j \in keep : i <= j
                 hi == CHOOSE i \in keep : \A j \in keep : j <= i
             IN  SubSeq(s, lo, hi)

\* the number of digits the string ends with
TrailingDigits(s) ==
    CHOOSE k \in 0..Len(s) :
        /\ \A i \in (Len(s) - k + 1)..Len(s) : IsDigit(s[i])
        /\ (k = Len(s) \/ ~IsDigit(s[Len(s) - k]))

\* a version suffix left in place
StripVersion_Identity(s) == s

\* replace(/\.\d+$/, '') and REGEXP_REPLACE(..., '\.\d+$', ''): a final
\* '.' followed by one or more digits up to the end is removed
StripVersion(s) ==
    LET k == TrailingDigits(s)
    IN  IF k >= 1 /\ Len(s) > k /\ s[Len(s) - k] = "."
        THEN SubSeq(s, 1, Len(s) - k - 1)
        ELSE s

\* s LIKE '%' || q || '%' (q holds none of the wildcards % and _)
Contains(s, q) ==
    \E i \in 0..(Len(s) - Len(q)) : SubSeq(s, i + 1, i + Len(q)) = q

\* s sorts strictly before t
StrLess(s, t) ==
    \E i \in 1..Len(t) :
        /\ \A j \in 1..(i - 1) : j <= Len(s) /\ s[j] = t[j]
        /\ (i > Len(s) \/ Code(s[i]) < Code(t[i]))

\* CONCAT(title, ' - ', artist) and `${song.title} - ${song.artist}`
TitleArtist(song) == song.title \o <<" ", "-", " ">> \o song.artist

\* ------------------------------------------------------------ song catalog
\* A row of table songs: id, title, artist (the asset keys play no part in
\* matching).  The catalog is the table in its physical order, the order a
\* SELECT without ORDER BY returns its rows in; a row's id is its position.

\* ORDER BY title (rows with equal titles in physical order)
OrderByTitle(rows) ==
    SortSeq(rows, LAMBDA a, b : \/ StrLess(a.title, b.title)
                                \/ (a.title = b.title /\ a.id < b.id))

\* SELECT * FROM songs WHERE LOWER(title) = LOWER($1)
ExactRows(cat, title) ==
    SelectSeq(cat, LAMBDA r : Lower(r.title) = Lower(title))

\* SELECT * FROM songs
\*  WHERE REGEXP_REPLACE(LOWER(title), '\.\d+$', '') = LOWER($1) ORDER BY title
FindAllVersionsOfSong(cat, baseTitle) ==
    OrderByTitle(SelectSeq(cat,
        LAMBDA r : StripVersion(Lower(r.title)) = Lower(baseTitle)))

\* the filter kept as it is
UniqueSongs_KeepAll(songs) == songs

\* arr.filter((song, index, arr) => arr.findIndex(s => s.id === song.id) === index)
UniqueSongs(songs) ==
    LET first == {i \in 1..Len(songs) :
                      \A j \in 1..(i - 1) : songs[j].id # songs[i].id}
        F[i \in 0..Len(songs)] ==
            IF i = 0 THEN <<>>
            ELSE IF i \in first THEN Append(F[i - 1], songs[i]) ELSE F[i - 1]
    IN  F[Len(songs)]

\* the rows one loop iteration of findSongsByTitlesWithAllVersions pushes:
\* the exact rows when there is one, otherwise the rows whose title without
\* its version suffix is the requested title
RowsForTitle(cat, title) ==
    IF Len(ExactRows(cat, title)) > 0
    THEN ExactRows(cat, title)
    ELSE FindAllVersionsOfSong(cat, title)

FindSongsByTitlesWithAllVersions(cat, songTitles) ==
    LET F[i \in 0..Len(songTitles)] ==
            IF i = 0 THEN <<>>
            ELSE F[i - 1] \o RowsForTitle(cat, songTitles[i])
    IN  UniqueSongs(F[Len(songTitles)])

\* the WHERE clause of searchSongs
SearchMatches(r, query) ==
    \/ Contains(Lower(r.title), Lower(query))
    \/ Contains(Lower(r.artist), Lower(query))
    \/ Contains(Lower(TitleArtist(r)), Lower(query))

\* the CASE of its ORDER BY
SearchRank(r, query) ==
    IF Lower(r.title) = Lower(query) THEN 1
    ELSE IF Lower(TitleArtist(r)) = Lower(query) THEN 2
    ELSE IF Contains(Lower(r.title), Lower(query)) THEN 3
    ELSE 4

\* Database.searchSongs: the matching rows by rank, then title, cut at limit
SearchSongs(cat, query, limit) ==
    LET hits == SelectSeq(cat, LAMBDA r : SearchMatches(r, query))
        sorted == SortSeq(hits, LAMBDA a, b :
                     \/ SearchRank(a, query) < SearchRank(b, query)
                     \/ /\ SearchRank(a, query) = SearchRank(b, query)
                        /\ \/ StrLess(a.title, b.title)
                           \/ (a.title = b.title /\ a.id < b.id))
    IN  SubSeq(sorted, 1, IF Len(sorted) < limit THEN Len(sorted) ELSE limit)

\* MusicService.extractBaseTitle
ExtractBaseTitle(title) == Trim(StripVersion(title))

\* the fallback loop of findSongFiles: every version of every search result
\* of every requested title
FuzzyVersions(cat, songTitles) ==
    LET ofResults(rs) ==
            LET G[j \in 0..Len(rs)] ==
                    IF j = 0 THEN <<>>
                    ELSE G[j - 1] \o FindAllVersionsOfSong(cat,
                                         ExtractBaseTitle(rs[j].title))
            IN  G[Len(rs)]
        F[i \in 0..Len(songTitles)] ==
            IF i = 0 THEN <<>>
            ELSE F[i - 1] \o ofResults(SearchSongs(cat, songTitles[i],
                                                   FuzzyLimit))
    IN  F[Len(songTitles)]

\* MusicService.findSongFiles: the fallback runs only when the first lookup
\* found nothing for any title
FindSongFiles(cat, songTitles) ==
    LET allVersions == FindSongsByTitlesWithAllVersions(cat, songTitles)
    IN  IF Len(allVersions) = 0
        THEN UniqueSongs(FuzzyVersions(cat, songTitles))
        ELSE allVersions

\* ----------------------------------------------------------- GET /search
\* the length test made on the untrimmed query
TooShort_NoTrim(query) == Len(query) < MinQueryLen

\* the query is absent, empty or shorter than two characters once trimmed
TooShort(query) == Len(Trim(query)) < MinQueryLen

\* parseInt(req.query.limit) || 20 (0 stands for an absent parameter)
SearchLimit(param) == IF param = 0 THEN DefaultSearchLimit ELSE param

FormatSongs(songs) ==
    [i \in 1..Len(songs) |->
        [id |-> songs[i].id, label |-> TitleArtist(songs[i]),
         title |-> songs[i].title, artist |-> songs[i].artist]]

\* the route: whether the catalog was queried, and the songs of the answer
SearchRoute(cat, query, param) ==
    IF TooShort(query)
    THEN [queried |-> FALSE, songs |-> <<>>]
    ELSE [queried |-> TRUE,
          songs |-> FormatSongs(SearchSongs(cat, Trim(query),
                                            SearchLimit(param)))]

\* the client's searchSongs: no request is sent for a short query
ClientSearchSongs(cat, query, param) ==
    IF TooShort(query)
    THEN [queried |-> FALSE, songs |-> <<>>]
    ELSE SearchRoute(cat, Trim(query), param)

\* ------------------------------------------------ GET /download/:fileId
\* FileService.getFileForDownload: the file, or the plain Error its catch
\* block throws (an Error carries no statusCode)
GetFileForDownload(store, fileId) ==
    IF fileId \in store
    THEN [ok |-> TRUE, file |-> fileId, statusCode |-> "none"]
    ELSE [ok |-> FALSE, file |-> "none", statusCode |-> "none"]

\* errorHandler: let { statusCode = 500 } = error
ErrorHandlerStatus(error) ==
    IF error.statusCode = "none" THEN "500" ELSE error.statusCode

\* ------------------------------------------------- inputs of the lookups
CatalogTitles ==
    {<<"f">>, <<"f", ".", "1">>, <<"f", ".", "2">>, <<"F", ".", "1">>,
     <<"f", "g">>, <<"g", ".", "1">>}

Artists == {<<"a">>, <<"g">>}

Catalogs ==
    UNION {[1..n -> [title : CatalogTitles, artist : Artists]] :
               n \in 0..MaxRows}

\* the table with each row's id
WithIds(rows) ==
    [i \in 1..Len(rows) |->
        [id |-> i, title |-> rows[i].title, artist |-> rows[i].artist]]

RequestTitles ==
    {<<"f">>, <<"F">>, <<"f", ".", "1">>, <<"g">>, <<"f", "g">>}

TitleLists == UNION {[1..n -> RequestTitles] : n \in 1..MaxTitles}

Queries ==
    {<<>>, <<" ">>, <<"f">>, <<" ", "f">>, <<"f", " ">>, <<" ", "f", " ">>,
     <<"f", ".">>, <<"F", ".">>, <<" ", "f", ".">>, <<".", "1">>,
     <<"f", "g">>, <<" ", "-", " ">>, <<"g", ".", "1">>}

LimitParams == {0, 1}

FileIds == {"file1", "file2"}

Stores == {{}, {"file1"}}

\* ----------------------------------------------------- lookup actions
InitLookup ==
    /\ alive = TRUE
    /\ sub = "idle"
    /\ db = Absent
    /\ cache = Absent
    /\ outputStore \in Stores
    /\ pipe = PipeIdle
    /\ cancel = CancelIdle
    /\ reader = ReaderIdle
    /\ cancels = 0
    /\ faults = 0
    /\ drops = 0
    /\ cacheLost = FALSE
    /\ resp = NoResp
    /\ req = NoRequest
    /\ catalog \in {WithIds(rows) : rows \in Catalogs}
    /\ lib = LibIdle
    /\ cron = CronIdle
    /\ pool = PoolIdle

jobVars == <<alive, sub, db, cache, outputStore, pipe, cancel, reader,
             cancels, faults, drops, cacheLost, resp, req>>

\* one call of the resolver (MusicService.findSongFiles)
Resolve ==
    /\ lib.op = "none"
    /\ \E titles \in TitleLists :
          lib' = [LibIdle EXCEPT !.op = "resolve", !.input = titles,
                                 !.queried = TRUE,
                                 !.songs = FindSongFiles(catalog, titles)]
    /\ UNCHANGED <<jobVars, catalog, cron, pool>>

\* one autocomplete search, typed into the client or sent to the route
Search ==
    /\ lib.op = "none"
    /\ \E q \in Queries, param \in LimitParams, via \in {"client", "route"} :
          LET r == IF via = "client"
                   THEN ClientSearchSongs(catalog, q, param)
                   ELSE SearchRoute(catalog, q, param)
          IN  lib' = [LibIdle EXCEPT
                         !.op = "search",
                         !.input = [q |-> q, limit |-> param, via |-> via],
                         !.queried = r.queried, !.songs = r.songs,
                         !.code = "200"]
    /\ UNCHANGED <<jobVars, catalog, cron, pool>>

\* one download: the file is streamed with status 200, or the error thrown
\* by getFileForDownload goes to the error handler
Download ==
    /\ lib.op = "none"
    /\ \E fileId \in FileIds :
          LET f == GetFileForDownload(outputStore, fileId)
          IN  lib' = [LibIdle EXCEPT
                         !.op = "download", !.input = fileId,
                         !.code = IF f.ok THEN "200"
                                  ELSE ErrorHandlerStatus(f),
                         !.sent = f.file]
    /\ UNCHANGED <<jobVars, catalog, cron, pool>>

NextLookup ==
    \/ Resolve
    \/ Search
    \/ Download

SpecLookup == InitLookup /\ [][NextLookup]_vars


\* ------------------------------------------------------ connection pool
\* Every Database method has the shape
\*     const client = await this.pool.connect();
\*     try { ...queries... } finally { client.release(); }
\* Its callers are counted, not told apart.

\* the number of Database method calls made so far
Calls(p) == p.waiting + p.active + p.external + p.done + p.threw + p.refused

\* pool.connect(): a client is checked out while fewer than max are in use,
\* otherwise the caller is queued
PoolConnect(p) ==
    IF p.inUse < PoolMax
    THEN [p EXCEPT !.inUse = @ + 1, !.active = @ + 1]
    ELSE [p EXCEPT !.waiting = @ + 1]

\* client.release(): the client goes to the first queued caller, if any,
\* and back to the pool otherwise
ClientRelease(p) ==
    IF p.waiting > 0
    THEN [p EXCEPT !.waiting = @ - 1, !.active = @ + 1]
    ELSE [p EXCEPT !.inUse = @ - 1]

\* a method releasing its client only when its queries succeeded
EndOfMethod_ReleaseOnSuccess(p, ok) ==
    IF ok
    THEN ClientRelease([p EXCEPT !.active = @ - 1, !.external = @ + 1])
    ELSE [p EXCEPT !.active = @ - 1, !.threw = @ + 1]

\* the method ends: its finally block releases the client whether the
\* queries resolved (the caller goes on to its next stage) or threw
EndOfMethod(p, ok) ==
    ClientRelease(IF ok
                  THEN [p EXCEPT !.active = @ - 1, !.external = @ + 1]
                  ELSE [p EXCEPT !.active = @ - 1, !.threw = @ + 1])

InitPool ==
    /\ alive = TRUE
    /\ sub = "idle"
    /\ db = Absent
    /\ cache = Absent
    /\ outputStore = {}
    /\ pipe = PipeIdle
    /\ cancel = CancelIdle
    /\ reader = ReaderIdle
    /\ cancels = 0
    /\ faults = 0
    /\ drops = 0
    /\ cacheLost = FALSE
    /\ resp = NoResp
    /\ req = NoRequest
    /\ catalog = <<>>
    /\ lib = LibIdle
    /\ cron = CronIdle
    /\ pool = PoolIdle

notPool == <<jobVars, catalog, lib, cron>>

\* a handler or a run calls a Database method
OpConnect ==
    /\ Calls(pool) < MaxOps
    /\ pool' = PoolConnect(pool)
    /\ UNCHANGED notPool

\* connectionTimeoutMillis passes for a queued caller: pool.connect()
\* rejects before the try block is entered
OpConnectTimeout ==
    /\ pool.waiting > 0
    /\ pool' = [pool EXCEPT !.waiting = @ - 1, !.refused = @ + 1]
    /\ UNCHANGED notPool

\* the queries of a method resolve, or one of them throws
OpEnd ==
    /\ pool.active > 0
    /\ \E ok \in BOOLEAN : pool' = EndOfMethod(pool, ok)
    /\ UNCHANGED notPool

\* the external call of the caller's next stage (asset fetch, transform,
\* encode, cache access) returns
OpExternalEnd ==
    /\ pool.external > 0
    /\ pool' = [pool EXCEPT !.external = @ - 1, !.done = @ + 1]
    /\ UNCHANGED notPool

NextPool ==
    \/ OpConnect
    \/ OpConnectTimeout
    \/ OpEnd
    \/ OpExternalEnd

SpecPool == InitPool /\ [][NextPool]_vars

\* ============================================================ properties
\* no cancel request, no failed store call, no entry lost during the run
Calm == cancels = 0 /\ faults = 0 /\ ~cacheLost

\* the background run has ended (generateMusic and, after a failure, the
\* route's .catch have both finished)
RunEnded == pipe.pc = "done"

\* the record a status read arriving now is answered with
StatusView == IF Present(cache) THEN cache ELSE db

\* the state right after the acknowledgement: the run has not reached its
\* first store call, no cancel has arrived, the entry has not been dropped
JustAcked == sub = "acked" /\ pipe = PipeStart /\ cancels = 0 /\ ~cacheLost

\* errors of the external calls that follow song resolution
LaterStageErrors == {"DownloadFailed", "MLError", "ConvertError", "SaveError"}

\* two records agree on status, progress, outputFileId and error
Agree(a, b) ==
    /\ a.status = b.status /\ a.progress = b.progress
    /\ a.out = b.out /\ a.error = b.error

\* C1: a status read answered right after the 202 acknowledgement (before the
\* run's first status write), with no store call failing, is answered 200 with
\* status pending and progress 0.
C1_ReadAfterAckIsPending ==
    (JustAcked /\ faults = 0 /\ resp.from = "read")
        => /\ resp.code = "200"
           /\ resp.body.status = "pending"
           /\ resp.body.progress = 0

C1_Witness ==
    JustAcked /\ faults = 0 /\ resp.from = "read" /\ resp.code = "200"

\* C2: with no cancel request (and even with no store failure and no cache
\* loss) the progress of the durable record, and the progress a status read
\* would return, never decrease from one step to the next.
C2_ProgressNeverDecreases ==
    [][Calm' => /\ db'.progress >= db.progress
                /\ StatusView'.progress >= StatusView.progress]_vars

\* C3: after a stage failure (no cancel, no store failure) the final record is
\* failed, carries the captured error and no outputFileId, and its progress
\* is the last checkpoint the run recorded durably.
C3_FailedKeepsLastCheckpoint ==
    (Calm /\ RunEnded /\ pipe.err # "none")
        => /\ db.status = "failed"
           /\ db.error = pipe.err
           /\ db.out = "none"
           /\ db.progress = pipe.ck

\* C4: when song resolution returned zero songs (no cancel request, no store
\* failure), the finished job is failed with progress at most 30 and the
\* no-MIDI-files-found error, in the durable record and in the cache.
C4_ZeroSongsFails ==
    (Calm /\ RunEnded /\ pipe.found = 0)
        => /\ db.status = "failed" /\ db.progress <= 30 /\ db.error = "NoMidi"
           /\ Present(cache) =>
                 /\ cache.status = "failed" /\ cache.progress <= 30
                 /\ cache.error = "NoMidi"

C4_Witness ==
    Calm /\ RunEnded /\ pipe.found = 0 /\ db.status = "failed"

\* a record of a successfully finished job
Completed(rec) ==
    /\ rec.status = "completed" /\ rec.progress = 100
    /\ rec.out # "none" /\ rec.completedAt # "none" /\ rec.error = "none"

\* C5: when all three titles resolve and no call fails (and no cancel request
\* is made), the finished job is completed with progress 100, an outputFileId
\* and completedAt, in the durable record, in the cache and in every status
\* read answered from then on.
C5_AllResolvedCompletes ==
    (Calm /\ RunEnded /\ pipe.err = "none" /\ pipe.found >= SongsRequired)
        => /\ Completed(db)
           /\ Present(cache) => Completed(cache)
           /\ resp.from = "read" => (resp.code = "200" /\ Completed(resp.body))

C5_Witness ==
    /\ Calm /\ RunEnded /\ pipe.found = SongsRequired
    /\ resp.from = "read" /\ resp.code = "200"
    /\ resp.body.status = "completed" /\ db.status = "completed"

\* C6: when one or two songs resolve and no later external call fails (no
\* cancel request, no store failure), the run does not fail at the resolution
\* stage: the transform is invoked with exactly the resolved songs' assets and
\* the job ends completed.
C6_SubsetCompletes ==
    (/\ Calm /\ RunEnded
     /\ pipe.found >= 1 /\ pipe.found < SongsRequired
     /\ pipe.err \notin LaterStageErrors)
        => /\ db.status = "completed"
           /\ pipe.files = pipe.found
           /\ pipe.mlIn = pipe.found

C6_Witness ==
    /\ Calm /\ RunEnded /\ pipe.found >= 1 /\ pipe.found < SongsRequired
    /\ db.status = "completed" /\ pipe.mlIn = pipe.found

\* C7: right after every successful cache write (even with no store failure
\* and no cache loss) the cached snapshot and the durable record agree on
\* status, progress, outputFileId and error.
C7_CacheAgreesAfterWrite ==
    [][(faults' = 0 /\ drops' = 0 /\ cache' # cache /\ Present(cache'))
          => Agree(cache', db')]_vars

\* C8: a cancel request that finds the durable record completed or failed is
\* answered with an error, leaves the record and the cache entry as they were
\* and starts no write.
C8_CancelOfTerminalRejected ==
    [][(cancels' = cancels + 1 /\ Terminal(db))
          => /\ resp'.from = "cancel" /\ resp'.code # "200"
             /\ db' = db /\ cache' = cache
             /\ cancel' = CancelIdle]_vars

C8_Witness ==
    resp.from = "cancel" /\ resp.code = "CannotCancel" /\ Terminal(db)

\* C9: a cancel request that finds the durable record pending or processing
\* goes on to write it; that write leaves the record failed with the
\* cancellation error, no outputFileId, and the progress the record had when
\* the request read it.
C9_CancelOfActiveJob ==
    [][/\ (cancels' = cancels + 1 /\ faults' = faults
             /\ db.status \in {"pending", "processing"})
          => (cancel'.pc = "db" /\ cancel'.progress = db.progress)
       /\ (cancel.pc = "db" /\ cancel'.pc = "cget")
          => /\ db'.status = "failed" /\ db'.error = "Cancelled"
             /\ db'.out = "none" /\ db'.progress = cancel.progress]_vars

C9_Witness ==
    /\ cancel.pc = "cget" /\ db.status = "failed" /\ db.error = "Cancelled"
    /\ db.progress = cancel.progress /\ db.progress > 0

\* C10: once the durable record is completed or failed, no step changes it
\* (stated for steps with no store failure and no cache loss).
C10_TerminalRecordFrozen ==
    [][(faults' = 0 /\ drops' = 0 /\ Terminal(db)) => db' = db]_vars

\* a finished record carries exactly one of outputFileId and error
OneOfOutputOrError(rec) ==
    /\ rec.status = "completed" => (rec.out # "none" /\ rec.error = "none")
    /\ rec.status = "failed" => (rec.error # "none" /\ rec.out = "none")

\* C11: in every reachable state the durable record, the cached snapshot and
\* the record in a status response, when completed, have an outputFileId and
\* no error, and when failed, have an error and no outputFileId.
C11_ExactlyOneOfOutputOrError ==
    /\ OneOfOutputOrError(db)
    /\ OneOfOutputOrError(cache)
    /\ (resp.from = "read" /\ resp.code = "200") => OneOfOutputOrError(resp.body)

C11_Witness ==
    /\ db.status = "completed" /\ db.out # "none"
    /\ cache.status = "failed" /\ cache.error # "none"

\* only a completed record has completedAt or outputFileId, only a failed one
\* has an error
FieldsMatchStatus(rec) ==
    /\ rec.completedAt # "none" => rec.status = "completed"
    /\ rec.out # "none" => rec.status = "completed"
    /\ rec.error # "none" => rec.status = "failed"

\* C12: in every reachable state of the durable record and of the cached
\* snapshot, completedAt is set only if status is completed, outputFileId is
\* set only if status is completed, and the error is set only if status is
\* failed.
C12_OptionalFieldsMatchStatus ==
    FieldsMatchStatus(db) /\ FieldsMatchStatus(cache)

\* C13: when the cache read or the cache write of a checkpoint status write
\* of the run fails, the status write still resolves and the run goes on
\* exactly as after a successful write.
C13_CacheFailureSwallowed ==
    [][(/\ pipe.pc \in CheckpointPcs /\ pipe.ph \in {"cget", "cset"}
        /\ pipe' # pipe /\ faults' = faults + 1)
          => pipe' = PipeWriteDone(pipe)]_vars

\* C16: with the cache unavailable the submission is still acknowledged, a
\* status read of an existing job is not answered with an error, status writes of the run still
\* resolve, and the process keeps running.
C16_CacheFailureTolerated ==
    [][/\ (sub = "createJobCache" /\ sub' # sub) => sub' = "acked"
       /\ (Present(db) /\ reader.pc \in {"idle", "cset"} /\ resp'.from = "read")
             => resp'.code # "500"
       /\ (pipe.ph \in {"cget", "cset"} /\ pipe' # pipe)
             => (alive' /\ pipe' \in {PipeWriteDone(pipe),
                                      [pipe EXCEPT !.ph = "cset",
                                                   !.cached = cache.completedAt]})]_vars

\* C17: the host process keeps running whatever fails inside the background
\* run.
C17_ProcessKeepsRunning == alive

\* C14: a status read whose store calls succeed asks the cache first; on a
\* hit it answers with the cached snapshot and does not go to the durable
\* store; on a miss it reads the durable row, and when the row exists it
\* takes a snapshot equal to the row, writes that snapshot to the cache and
\* answers 200 with it.
C14_ReadCacheFirstThenDurable ==
    [][/\ (reader.pc = "idle" /\ resp'.from = "read" /\ faults' = faults)
             => /\ Present(cache)
                /\ resp' = FormatJobResponse(cache)
                /\ reader' = reader /\ cache' = cache
       /\ (reader.pc = "idle" /\ reader'.pc = "dbget") => ~Present(cache)
       /\ (reader.pc = "dbget" /\ reader' # reader /\ faults' = faults
             /\ Present(db))
             => /\ reader'.pc = "cset"
                /\ \A f \in DOMAIN db : reader'.data[f] = db[f]
                /\ cache' = cache
       /\ (reader.pc = "cset" /\ reader' # reader /\ faults' = faults)
             => /\ cache' = reader.data
                /\ resp'.from = "read" /\ resp'.code = "200"
                /\ resp'.body = reader.data]_vars

C14_Witness ==
    /\ resp.from = "read" /\ resp.code = "200" /\ resp.body = cache
    /\ drops > 0 /\ Terminal(db) /\ resp.body = db /\ pipe.pc = "done"

\* C15: a status read that finds the id neither in the cache nor in the
\* durable store is answered 404 with no record, and no cache entry comes
\* into being while the id is in neither store.
C15_UnknownIdIs404 ==
    [][/\ (reader.pc = "dbget" /\ reader' # reader /\ faults' = faults
             /\ ~Present(db))
             => /\ resp'.from = "read" /\ resp'.code = "404"
                /\ ~Present(resp'.body)
                /\ reader' = ReaderIdle
       /\ (~Present(db) /\ ~Present(cache)) => ~Present(cache')]_vars

C15_Witness ==
    /\ resp.from = "read" /\ resp.code = "404"
    /\ ~Present(db) /\ ~Present(cache)

\* the error message the run stores when a fetch fails for the given cause
StoredFetchError(cause) == DownloadMidiFilesError(S3DownloadFileError(cause))

\* C18: when an asset fetch has failed (no cancel request, no store failure),
\* the error stored on the failed job is the one stored for the cause of that
\* failure and differs from the error stored for every other cause.
C18_FetchErrorNamesCause ==
    (Calm /\ RunEnded /\ pipe.cause # "none")
        => /\ db.status = "failed"
           /\ db.error = StoredFetchError(pipe.cause)
           /\ \A c \in S3Causes \ {pipe.cause} : StoredFetchError(c) # db.error

\* C19: the transform is invoked only when no fetch of the run has failed,
\* and then with exactly one asset per resolved song; when a fetch has failed
\* the run throws without invoking the transform and (with no cancel request
\* and no store failure) the job ends failed.
C19_TransformNeedsAllAssets ==
    /\ pipe.mlIn # -1
          => (pipe.cause = "none" /\ pipe.mlIn = pipe.found /\ pipe.found >= 1)
    /\ pipe.cause # "none"
          => /\ pipe.mlIn = -1 /\ pipe.err # "none"
             /\ pipe.pc \in {"wfail", "rwfail", "done", "crashed"}
             /\ (Calm /\ RunEnded) => db.status = "failed"

C19_Witness ==
    /\ Calm /\ RunEnded /\ pipe.cause # "none" /\ pipe.found > 1
    /\ pipe.mlIn = -1 /\ db.status = "failed"

\* positions of the run at which the external call of a stage is about to
\* be made
StagePcs == {"resolve", "download", "transform", "encode", "save"}

\* the checkpoint written durably last when the stage's call begins
StageCheckpoint(pc) ==
    CASE pc = "resolve"   -> 10
      [] pc = "download"  -> 30
      [] pc = "transform" -> 50
      [] pc = "encode"    -> 80
      [] pc = "save"      -> 95

\* the checkpoint written durably last when a checkpoint write begins
PreviousCheckpoint(pc) ==
    CASE pc = "w10"  -> 0
      [] pc = "w30"  -> 10
      [] pc = "w50"  -> 30
      [] pc = "w80"  -> 50
      [] pc = "w95"  -> 80
      [] pc = "w100" -> 95

C21_AckAfterCreateBeforePipeline ==
    [][/\ (resp'.from = "submit" /\ resp'.code = "202")
             => /\ db' = db /\ db'.status = "pending" /\ db'.progress = 0
                /\ cache'.status = "pending" /\ cache'.progress = 0
                /\ pipe = PipeIdle
                /\ pipe'.pc = "w10" /\ pipe'.ph = "db" /\ pipe'.ck = 0
                /\ pipe'.found = -1 /\ pipe'.mlIn = -1
                /\ outputStore' = {}
       /\ pipe' # PipeIdle => sub' = "acked"]_vars

C21_Witness ==
    /\ resp.from = "submit" /\ resp.code = "202"
    /\ db.status = "pending" /\ cache.status = "pending" /\ pipe.ck = 0

\* a body with a song count other than 3, an empty title, or a title longer
\* than 200 characters
InvalidBody(r) ==
    \/ Len(r) # 3
    \/ \E i \in 1..Len(r) : r[i] = 0 \/ r[i] > 200

\* C22: a submission whose body has a song count other than 3, an empty
\* title or a title longer than 200 characters is answered 400, and from
\* then on there is no durable record, no cache entry and no run.
C22_InvalidSubmissionRejected ==
    [][/\ (sub = "validate" /\ sub' # sub /\ InvalidBody(req))
             => /\ sub' = "rejected400"
                /\ resp'.from = "submit" /\ resp'.code = "400"
       /\ sub' = "rejected400"
             => (~Present(db') /\ ~Present(cache') /\ pipe' = PipeIdle)]_vars

C22_Witness ==
    /\ sub = "rejected400" /\ resp.from = "submit" /\ resp.code = "400"
    /\ ~Present(db) /\ ~Present(cache) /\ pipe = PipeIdle

\* C30: a cancellation does not stop the run: no step of the cancel handler
\* changes the run's position, and a checkpoint write of the run that finds
\* the record failed by the cancellation overwrites it with processing or
\* completed and clears the cancellation error (last write wins).
C30_CancelDoesNotStopRun ==
    [][/\ cancel' # cancel => pipe' = pipe
       /\ (/\ db.status = "failed" /\ db.error = "Cancelled"
           /\ pipe.pc \in CheckpointPcs /\ pipe.ph = "db" /\ pipe'.ph = "cget")
             => /\ db'.status \in {"processing", "completed"}
                /\ db'.error = "none"
                /\ db'.progress = PipeArgs(pipe).progress]_vars

\* the cancel handler has answered 200 (its failed write was made) and the
\* finished run has left the record completed
C30_Witness ==
    /\ resp.from = "cancel" /\ resp.code = "200"
    /\ RunEnded /\ db.status = "completed" /\ db.error = "none"

\* ------------------------------------------------ resolver and search
\* the resolver's result holds the catalog row r
Resolved(r) == \E i \in 1..Len(lib.songs) : lib.songs[i] = r

\* title is base followed by a version suffix: '.' and one or more digits
VersionOf(title, base) ==
    LET t == Lower(title)
        b == Lower(base)
    IN  /\ Len(t) >= Len(b) + 2
        /\ SubSeq(t, 1, Len(b)) = b
        /\ t[Len(b) + 1] = "."
        /\ \A i \in (Len(b) + 2)..Len(t) : IsDigit(t[i])

\* C23: a requested title that no row carries as its exact title (case
\* ignored) resolves to every row whose title is that title followed by a
\* version suffix; with rows 'f.1' and 'f.2' and no row 'f', resolving
\* ['f'] returns both rows.
C23_BaseTitleResolvesToAllVersions ==
    lib.op = "resolve" =>
        \A i \in 1..Len(lib.input) :
            (\A k \in 1..Len(catalog) :
                 Lower(catalog[k].title) # Lower(lib.input[i]))
            => \A k \in 1..Len(catalog) :
                   VersionOf(catalog[k].title, lib.input[i])
                       => Resolved(catalog[k])

C23_Witness ==
    /\ lib.op = "resolve" /\ lib.input = << <<"f">> >>
    /\ Len(catalog) = 2
    /\ catalog[1].title = <<"f", ".", "1">>
    /\ catalog[2].title = <<"f", ".", "2">>
    /\ Resolved(catalog[1]) /\ Resolved(catalog[2])

\* C24: for each requested title with a case-insensitive exact match, the
\* result holds the matching row and every row whose base title equals the
\* base title of the match.
C24_ExactMatchExpandsToAllVersions ==
    lib.op = "resolve" =>
        \A i \in 1..Len(lib.input), k \in 1..Len(catalog) :
            Lower(catalog[k].title) = Lower(lib.input[i])
            => /\ Resolved(catalog[k])
               /\ \A m \in 1..Len(catalog) :
                      StripVersion(Lower(catalog[m].title))
                          = StripVersion(Lower(catalog[k].title))
                      => Resolved(catalog[m])

\* C25: for every requested title without an exact match, the result holds
\* every version of every fuzzy match of that title, whatever the other
\* requested titles matched.
C25_FuzzyFallbackPerTitle ==
    lib.op = "resolve" =>
        \A i \in 1..Len(lib.input) :
            Len(ExactRows(catalog, lib.input[i])) = 0
            => LET fuzzy == FuzzyVersions(catalog, <<lib.input[i]>>)
               IN  \A j \in 1..Len(fuzzy) : Resolved(fuzzy[j])

\* C26: the resolver's result holds no two songs with the same id.
C26_ResultHasNoDuplicateIds ==
    lib.op = "resolve" =>
        \A i, j \in 1..Len(lib.songs) :
            i # j => lib.songs[i].id # lib.songs[j].id

\* two different requested titles, neither an exact title, that expand to
\* the same two versions
C26_Witness ==
    /\ lib.op = "resolve" /\ Len(lib.input) = 2
    /\ lib.input[1] # lib.input[2]
    /\ Len(ExactRows(catalog, lib.input[1])) = 0
    /\ Len(FindAllVersionsOfSong(catalog, lib.input[1])) = 2
    /\ FindAllVersionsOfSong(catalog, lib.input[2])
           = FindAllVersionsOfSong(catalog, lib.input[1])
    /\ Len(lib.songs) = 2

\* C27: a search that queried the catalog returns at most one song per
\* base title, each with its version suffix stripped from the title.
C27_SearchOnePerBaseTitle ==
    (lib.op = "search" /\ lib.queried) =>
        /\ \A i, j \in 1..Len(lib.songs) :
               i # j => StripVersion(Lower(lib.songs[i].title))
                            # StripVersion(Lower(lib.songs[j].title))
        /\ \A i \in 1..Len(lib.songs) :
               StripVersion(lib.songs[i].title) = lib.songs[i].title

\* the catalog row matches the query by containment in its title, its
\* artist or 'title - artist', case ignored
Matching(r, q) ==
    \E s \in {r.title, r.artist, TitleArtist(r)} : Contains(Lower(s), Lower(q))

\* C28: a search whose trimmed query has length 0 or 1 returns an empty
\* list without querying the catalog; with length 2 or more the catalog is
\* queried: every returned song is a row matching the trimmed query, and
\* without a limit parameter every matching row is returned.
C28_ShortQueryNotSearched ==
    lib.op = "search" =>
        LET q == Trim(lib.input.q)
        IN  /\ Len(q) <= 1 => (~lib.queried /\ lib.songs = <<>>)
            /\ Len(q) >= 2
                  => /\ lib.queried
                     /\ \A i \in 1..Len(lib.songs) :
                            \E k \in 1..Len(catalog) :
                                /\ catalog[k].id = lib.songs[i].id
                                /\ Matching(catalog[k], q)
                     /\ lib.input.limit = 0
                            => \A k \in 1..Len(catalog) :
                                   Matching(catalog[k], q)
                                   => \E i \in 1..Len(lib.songs) :
                                          lib.songs[i].id = catalog[k].id

\* a query of two characters, one once trimmed, sent to the route
C28_Witness ==
    /\ lib.op = "search" /\ lib.input.via = "route"
    /\ Len(lib.input.q) = 2 /\ Len(Trim(lib.input.q)) = 1
    /\ ~lib.queried /\ lib.songs = <<>>

\* C29: a download of a file id with no stored artifact is answered 404; a
\* download of a stored artifact is answered 200 with the artifact's bytes.
C29_MissingArtifactIs404 ==
    lib.op = "download" =>
        IF lib.input \in outputStore
        THEN lib.code = "200" /\ lib.sent = lib.input
        ELSE lib.code = "404"

\* -------------------------------------------- races, halting, artifacts
\* C31: once the durable record is completed (with its outputFileId and
\* completedAt), no step of the cancel handler changes it: the handler's
\* write is never made on a record that has become completed since the
\* handler's status check (stated for executions with no store failure).
C31_CancelNeverOverwritesCompleted ==
    [][(faults' = 0 /\ Completed(db) /\ cancel' # cancel) => db' = db]_vars

\* C32: once the run has ended and no cancel or read is in flight (with no
\* store failure and no cancel request), the durable record is completed or
\* failed and a status read arriving now is answered with that status.
C32_ReadsReturnDurableTerminalState ==
    (RunEnded /\ cancel.pc = "idle" /\ reader.pc = "idle"
        /\ faults = 0 /\ cancels = 0)
        => (Terminal(db) /\ StatusView.status = db.status)

\* C34: when the submission is answered with an error, no durable record of
\* the job remains and no run was started.
C34_SubmissionAllOrNothing ==
    (resp.from = "submit" /\ resp.code \in {"400", "500"})
        => (~Present(db) /\ pipe = PipeIdle)

\* the run is in its catch block, in the route's .catch, or over
Halted(p) == p.pc \in {"wfail", "rwfail", "done", "crashed"}

\* C35: from the moment a stage of the run has failed, the run is only ever
\* in its failure handling or over: no asset is fetched, no transform or
\* encode is called, nothing is saved, and every status write the run makes
\* is a failed write; a run that resolved zero songs never reaches the fetch
\* or any later stage.
C35_RunHaltsAfterFailure ==
    [][/\ pipe'.err # "none" => Halted(pipe')
       /\ pipe.err # "none"
             => /\ pipe'.err # "none"
                /\ pipe'.files = pipe.files /\ pipe'.mlIn = pipe.mlIn
                /\ pipe'.out = pipe.out /\ outputStore' = outputStore
                /\ (pipe' # pipe /\ db' # db) => db'.status = "failed"
       /\ pipe'.found = 0
             => /\ pipe'.pc \in {"w30", "wfail", "rwfail", "done", "crashed"}
                /\ pipe'.files = 0 /\ pipe'.mlIn = -1
                /\ pipe'.out = "none"]_vars

\* a run that resolved zero songs has ended failed without a fetch
C35_Witness ==
    /\ RunEnded /\ pipe.found = 0 /\ pipe.err = "NoMidi"
    /\ pipe.files = 0 /\ pipe.mlIn = -1 /\ db.status = "failed"

\* C36: whenever the durable record, the cache entry or the body of a
\* status response is completed, it names an artifact and that artifact is
\* in the output store.
C36_ArtifactStoredBeforeCompleted ==
    \A rec \in {db, cache, reader.data, resp.body} :
        rec.status = "completed"
            => (rec.out # "none" /\ rec.out \in outputStore)

C36_Witness ==
    /\ resp.from = "read" /\ resp.code = "200"
    /\ resp.body.status = "completed" /\ resp.body.out \in outputStore

\* ------------------------------------------------------------- liveness
\* Every external call eventually returns or fails: each step of a handler
\* or of the run that is waiting on a call is eventually taken.
Fairness ==
    /\ WF_vars(SubmitValidate) /\ WF_vars(CreateJobDb)
    /\ WF_vars(CreateJobCache)
    /\ WF_vars(PipeDbUpdate) /\ WF_vars(PipeCacheGet)
    /\ WF_vars(PipeCacheSet)
    /\ WF_vars(PipeResolve) /\ WF_vars(PipeDownload)
    /\ WF_vars(PipeTransform) /\ WF_vars(PipeEncode) /\ WF_vars(PipeSave)
    /\ WF_vars(CancelDbUpdate) /\ WF_vars(CancelCacheGet)
    /\ WF_vars(CancelCacheSet)
    /\ WF_vars(ReadDbGet) /\ WF_vars(ReadCacheSet)

SpecFair == Init /\ [][Next]_vars /\ Fairness

\* C33: every job whose durable record was created eventually has status
\* completed or failed.
C33_EveryJobReachesTerminal == Present(db) ~> Terminal(db)

\* ------------------------------------------------------------- cleanup
\* C37: while the durable record exists with status completed, the
\* artifact named by its outputFileId is in the output store.
C37_CompletedJobKeepsArtifact ==
    (Present(db) /\ db.status = "completed") => db.out \in outputStore

\* C38: a step removes the durable record only when the record is completed
\* or failed (and older than the cutoff of the job cleanup); a job cleanup
\* that finds the record pending or processing, whatever its age, leaves it.
C38_CleanupDeletesOnlyTerminalJobs ==
    [][/\ (Present(db) /\ ~Present(db'))
             => (Terminal(db) /\ cron.age = "week" /\ cron'.jobs = "deleted")
       /\ (Present(db) /\ ~Terminal(db) /\ cron'.jobs # cron.jobs)
             => db' = db]_vars

\* a record still pending after a week was left by the job cleanup
C38_Witness ==
    /\ cron.age = "week" /\ cron.jobs = "kept"
    /\ Present(db) /\ db.status = "pending"

\* ------------------------------------------------------ connection pool
\* C39: the clients in use are exactly those of the callers inside a
\* Database method (one each): callers queued, refused, in an external call
\* of their next stage or finished hold none; the number in use never
\* exceeds 20 however many operations are called; and with no operation
\* queued or running it is zero.
C39_ConnectionsAcquiredAndReleased ==
    /\ pool.inUse = pool.active
    /\ pool.inUse <= 20
    /\ (pool.waiting = 0 /\ pool.active = 0) => pool.inUse = 0

\* more operations than the pool has clients were called, some were queued
\* and refused, some threw, and all have ended with no client in use
C39_Witness ==
    /\ Calls(pool) > 20
    /\ pool.refused >= 1 /\ pool.threw >= 1 /\ pool.done >= 1
    /\ pool.waiting = 0 /\ pool.active = 0 /\ pool.external = 0
    /\ pool.inUse = 0

====
